---- MODULE Spec2Model ----
(***************************************************************************)
(* Model of the generate_image / edit_image tools of nano-banana-mcp-rs    *)
(* (src/src/tools.rs): the two tool handlers, the response normalizer      *)
(* extract_text_and_images and the markdown extractor                      *)
(* extract_images_from_markdown.                                           *)
(*                                                                         *)
(* Strings that the code scans are sequences of one-character strings.     *)
(* A JSON value (serde_json::Value) is a tagged tuple:                     *)
(*   <<"absent">>     no value (Option::None of Value::get)                *)
(*   <<"null">>       null                                                 *)
(*   <<"str", s>>     a string, s a sequence of characters                 *)
(*   <<"num", n>>     a number                                             *)
(*   <<"arr", a>>     an array, a a sequence of JSON values                *)
(*   <<"obj", f>>     an object, f a function from its keys to its values  *)
(***************************************************************************)
EXTENDS Integers, Sequences, FiniteSets, TLC

\* ------------------------------------------------------------------ bounds

\* Longest list of input images of an edit_image call.
MaxImages == 2
\* Longest sequence of typed parts in a reply's content.
MaxParts == 2
\* Most text pieces concatenated into one reply text.
MaxPieces == 2

\* ------------------------------------------------------------ JSON values

Absent == <<"absent">>
\* json!({...}): f maps each key to its value; a key mapped to Absent is left
\* out of the object.
JNull == <<"null">>
JStr(s) == <<"str", s>>
JNum(n) == <<"num", n>>
JArr(a) == <<"arr", a>>
JObj(f) == <<"obj", [k \in {x \in DOMAIN f : f[x] # Absent} |-> f[k]]>>

\* Value::get(key): the member of an object, None for any other value.
Get(v, k) == IF v[1] = "obj" /\ k \in DOMAIN v[2] THEN v[2][k] ELSE Absent
IsSome(v) == v[1] # "absent"
\* Value::as_str / as_array / as_u64 succeed on that variant only.
IsStr(v) == v[1] = "str"
IsArr(v) == v[1] = "arr"
IsU64(v) == v[1] = "num" /\ v[2] >= 0

\* ---------------------------------------------------------------- strings

\* str::find: the 1-based index of the first occurrence of pat in s, 0 if none.
Find(s, pat) ==
  IF \E i \in 1..(Len(s) - Len(pat) + 1) : SubSeq(s, i, i + Len(pat) - 1) = pat
    THEN CHOOSE i \in 1..(Len(s) - Len(pat) + 1) :
           /\ SubSeq(s, i, i + Len(pat) - 1) = pat
           /\ \A j \in 1..(i - 1) : SubSeq(s, j, j + Len(pat) - 1) # pat
  ELSE 0

StartsWith(s, pat) == Len(s) >= Len(pat) /\ SubSeq(s, 1, Len(pat)) = pat

IsSpace(c) == c \in {" ", "\n", "\t", "\r"}

RECURSIVE TrimStart(_)
TrimStart(s) ==
  IF s # <<>> /\ IsSpace(Head(s)) THEN TrimStart(Tail(s)) ELSE s

RECURSIVE TrimEnd(_)
TrimEnd(s) ==
  IF s # <<>> /\ IsSpace(s[Len(s)]) THEN TrimEnd(SubSeq(s, 1, Len(s) - 1)) ELSE s

\* str::trim
Trim(s) == TrimEnd(TrimStart(s))

\* [String]::join(sep)
RECURSIVE Join(_, _)
Join(ss, sep) ==
  IF ss = <<>> THEN <<>>
  ELSE IF Len(ss) = 1 THEN ss[1]
  ELSE ss[1] \o sep \o Join(Tail(ss), sep)

MdOpen == <<"!", "[">>
MdParen == <<"]", "(">>
DataImagePrefix == <<"d", "a", "t", "a", ":", "i", "m", "a", "g", "e", "/">>
PngBase64Prefix ==
  DataImagePrefix \o <<"p", "n", "g", ";", "b", "a", "s", "e", "6", "4", ",">>
HttpPrefix == <<"h", "t", "t", "p", ":", "/", "/">>
HttpsPrefix == <<"h", "t", "t", "p", "s", ":", "/", "/">>

\* ------------------------------------------- extract_images_from_markdown

\* The text without its characters from..to (String::replace_range with "").
RemoveRange(text, from, to) ==
  SubSeq(text, 1, from - 1) \o SubSeq(text, to + 1, Len(text))

\* The scan loop's state: cleaned_text, images, and done once the loop breaks.
MdState(cleaned_text, images, done) ==
  [cleaned_text |-> cleaned_text, images |-> images, done |-> done]

\* A skip that leaves the text as it is.
MdSkip_keep(st, start) == MdState(st.cleaned_text, st.images, FALSE)

\* Lines 343-344: no complete image at this "![": the two characters go.
MdSkip(st, start) ==
  MdState(RemoveRange(st.cleaned_text, start, start + 1), st.images, FALSE)

\* A match that puts its data URI in front of the earlier ones.
MdClose_prepend(st, start, paren, after_paren, endp) ==
  IF endp # 0
    THEN MdState(RemoveRange(st.cleaned_text, start, start + paren + endp),
                 <<SubSeq(after_paren, 1, endp - 1)>> \o st.images,
                 FALSE)
  ELSE MdState(RemoveRange(st.cleaned_text, start, start + 1), st.images, FALSE)

\* Lines 332-340: the data URI ends before the first ")" after it, and the
\* whole span from "![" to that ")" goes.
MdClose(st, start, paren, after_paren, endp) ==
  IF endp # 0
    THEN MdState(RemoveRange(st.cleaned_text, start, start + paren + endp),
                 Append(st.images, SubSeq(after_paren, 1, endp - 1)),
                 FALSE)
  ELSE MdSkip(st, start)

\* Lines 328-331: what follows "](" must start with data:image/.
MdAfterParen(st, start, paren, after_paren) ==
  IF StartsWith(after_paren, DataImagePrefix)
    THEN MdClose(st, start, paren, after_paren, Find(after_paren, <<")">>))
  ELSE MdSkip(st, start)

\* Lines 325-327: the first "](" at or after the "![".
MdParenAt(st, start, remaining, paren) ==
  IF paren # 0
    THEN MdAfterParen(st, start, paren, SubSeq(remaining, paren + 2, Len(remaining)))
  ELSE MdSkip(st, start)

MdOpenAt(st, start) ==
  IF start = 0 THEN MdState(st.cleaned_text, st.images, TRUE)
  ELSE MdParenAt(st, start, SubSeq(st.cleaned_text, start, Len(st.cleaned_text)),
                 Find(SubSeq(st.cleaned_text, start, Len(st.cleaned_text)), MdParen))

\* One iteration of the scan loop (lines 323-348).
MdStep(st) == MdOpenAt(st, Find(st.cleaned_text, MdOpen))

RECURSIVE MdLoop(_)
MdLoop(st) == IF st.done THEN st ELSE MdLoop(MdStep(st))

MdResult(fin) == [cleaned_text |-> Trim(fin.cleaned_text), images |-> fin.images]

extract_images_from_markdown(text) == MdResult(MdLoop(MdState(text, <<>>, FALSE)))

\* ------------------------------------------------ extract_text_and_images

Ok(text, images) == [ok |-> TRUE, text |-> text, images |-> images]
Err(kind, detail) == [ok |-> FALSE, kind |-> kind, detail |-> detail]

\* The default message "未知错误" of an error object without a message string.
UnknownError == <<"unknown error">>
\* The text "无内容" reported when the reply holds no text fragment.
NoContent == <<"no content">>

\* json!({ "image_url": x })
Descriptor(x) == JObj([image_url |-> x])
UrlDescriptor(u) == Descriptor(JObj([url |-> u]))

RECURSIVE UrlDescriptors(_)
UrlDescriptors(urls) ==
  IF urls = <<>> THEN <<>>
  ELSE <<UrlDescriptor(JStr(Head(urls)))>> \o UrlDescriptors(Tail(urls))

\* What the scan has collected: the text fragments and the descriptors.
Scanned(texts, images) == [texts |-> texts, images |-> images]

\* The embedded images become descriptors, the cleaned text a fragment
\* unless it is empty (lines 408-415 and 424-431).
AddText(acc, r) ==
  Scanned(IF r.cleaned_text # <<>> THEN Append(acc.texts, r.cleaned_text)
          ELSE acc.texts,
          acc.images \o UrlDescriptors(r.images))

\* The text branch shared by a string content and a text part.
ScanText(acc, s) == AddText(acc, extract_images_from_markdown(s))

PartType(t) == IF IsStr(t) THEN t[2] ELSE <<>>

\* One iteration of the loop over the parts of an array content
\* (lines 418-441).
ScanPart(acc, part) ==
  IF PartType(Get(part, "type")) = <<"t", "e", "x", "t">>
    THEN IF IsStr(Get(part, "text")) THEN ScanText(acc, Get(part, "text")[2])
         ELSE acc
  ELSE IF PartType(Get(part, "type")) = <<"i", "m", "a", "g", "e", "_", "u", "r", "l">>
    THEN IF IsSome(Get(part, "image_url"))
           THEN Scanned(acc.texts, Append(acc.images, Descriptor(Get(part, "image_url"))))
         ELSE acc
  ELSE acc

RECURSIVE ScanParts(_, _)
ScanParts(acc, parts) ==
  IF parts = <<>> THEN acc ELSE ScanParts(ScanPart(acc, Head(parts)), Tail(parts))

\* The loop over message.images (lines 447-453).
RECURSIVE ScanImages(_, _)
ScanImages(images, imgs) ==
  IF imgs = <<>> THEN images
  ELSE ScanImages(
         IF IsSome(Get(Head(imgs), "image_url"))
           THEN Append(images, Descriptor(Get(Head(imgs), "image_url")))
         ELSE images,
         Tail(imgs))

\* The loop over the top-level data array (lines 457-464).
RECURSIVE ScanData(_, _)
ScanData(images, data) ==
  IF data = <<>> THEN images
  ELSE ScanData(
         IF IsStr(Get(Head(data), "b64_json"))
           THEN Append(images,
                       UrlDescriptor(JStr(PngBase64Prefix \o Get(Head(data), "b64_json")[2])))
         ELSE IF IsSome(Get(Head(data), "url"))
           THEN Append(images, UrlDescriptor(Get(Head(data), "url")))
         ELSE images,
         Tail(data))

Located(message) == [ok |-> TRUE, message |-> message]

\* LocateMessage where an empty choices array passes on to the candidates.
LocateMessage_fallthrough(choices, candidates) ==
  IF IsArr(choices) /\ choices[2] # <<>>
    THEN IF ~IsSome(Get(choices[2][1], "message"))
           THEN Err("ChoicesMessageMissing", <<>>)
         ELSE Located(Get(choices[2][1], "message"))
  ELSE IF IsArr(candidates)
    THEN IF candidates[2] = <<>> THEN Err("CandidatesEmpty", <<>>)
         ELSE IF ~IsSome(Get(candidates[2][1], "content"))
           THEN Err("CandidatesContentMissing", <<>>)
         ELSE Located(Get(candidates[2][1], "content"))
  ELSE Err("NoChoicesOrCandidates", <<>>)

\* Step 2 (lines 368-394): the first message of the reply, or the error that
\* ends the call.
LocateMessage(choices, candidates) ==
  IF IsArr(choices)
    THEN IF choices[2] = <<>> THEN Err("ChoicesEmpty", <<>>)
         ELSE IF ~IsSome(Get(choices[2][1], "message"))
           THEN Err("ChoicesMessageMissing", <<>>)
         ELSE Located(Get(choices[2][1], "message"))
  ELSE IF IsArr(candidates)
    THEN IF candidates[2] = <<>> THEN Err("CandidatesEmpty", <<>>)
         ELSE IF ~IsSome(Get(candidates[2][1], "content"))
           THEN Err("CandidatesContentMissing", <<>>)
         ELSE Located(Get(candidates[2][1], "content"))
  ELSE Err("NoChoicesOrCandidates", <<>>)

\* ContentField with the two fields read in the other order.
ContentField_parts_first(message) ==
  IF IsSome(Get(message, "parts")) THEN Get(message, "parts")
  ELSE IF IsSome(Get(message, "content")) THEN Get(message, "content")
  ELSE message

\* Lines 400-403: message.content, else message.parts, else the message.
ContentField(message) ==
  IF IsSome(Get(message, "content")) THEN Get(message, "content")
  ELSE IF IsSome(Get(message, "parts")) THEN Get(message, "parts")
  ELSE message

\* Lines 405-444: the scan of the selected content.
ScanContent(content_field) ==
  IF IsStr(content_field) THEN ScanText(Scanned(<<>>, <<>>), content_field[2])
  ELSE IF IsArr(content_field) THEN ScanParts(Scanned(<<>>, <<>>), content_field[2])
  ELSE Scanned(<<>>, <<>>)

\* Lines 447-453: the images of message.images follow those of the content.
WithMessageImages(images, imgs) ==
  IF IsArr(imgs) THEN ScanImages(images, imgs[2]) ELSE images

\* WithDataImages without the test that no image was found so far.
WithDataImages_always(images, data) ==
  IF IsArr(data) THEN ScanData(images, data[2]) ELSE images

\* Lines 454-465: the data array is read when no image was found so far.
WithDataImages(images, data) ==
  IF images = <<>> /\ IsArr(data) THEN ScanData(images, data[2]) ELSE images

\* Lines 467-471
MergedText(texts) == IF texts = <<>> THEN NoContent ELSE Join(texts, <<"\n">>)

Collect(response, message, scanned) ==
  Ok(MergedText(scanned.texts),
     WithDataImages(WithMessageImages(scanned.images, Get(message, "images")),
                    Get(response, "data")))

\* Steps 3 and 4 on a located message (lines 396-473).
ScanMessage(response, message) ==
  Collect(response, message, ScanContent(ContentField(message)))

\* Lines 356-365: the error of a reply with an error key.
ApiError(error) ==
  Err("ApiError",
      IF IsStr(Get(error, "message")) THEN Get(error, "message")[2] ELSE UnknownError)

AfterLocate(response, located) ==
  IF ~located.ok THEN located ELSE ScanMessage(response, located.message)

\* The error of a reply that could not be located, the error key read only
\* then.
LateError(response, located) ==
  IF located.ok THEN ScanMessage(response, located.message)
  ELSE IF IsSome(Get(response, "error")) THEN ApiError(Get(response, "error"))
  ELSE located

\* extract_text_and_images with the error key read after the envelope.
extract_text_and_images_error_last(response) ==
  LateError(response,
            LocateMessage(Get(response, "choices"), Get(response, "candidates")))

extract_text_and_images(response) ==
  IF IsSome(Get(response, "error")) THEN ApiError(Get(response, "error"))
  ELSE AfterLocate(response,
                   LocateMessage(Get(response, "choices"), Get(response, "candidates")))

\* ------------------------------------------------------- upstream replies

\* The pieces a reply text is concatenated from, with the data URIs that the
\* piece embeds as a complete markdown image.
UriA == PngBase64Prefix \o <<"A", "A", "A", "A">>
UriB == DataImagePrefix \o <<"b">>
HttpA == HttpPrefix \o <<"a">>
PieceNames == {"x", "plain", "hello", "sp", "imgA", "imgB", "link"}

PieceChars(p) ==
  CASE p = "x" -> <<"x">>
    [] p = "plain" -> <<"p", "l", "a", "i", "n">>
    [] p = "hello" -> <<"h", "e", "l", "l", "o">>
    [] p = "sp" -> <<" ">>
    [] p = "imgA" -> <<"!", "[", "a", "]", "(">> \o UriA \o <<")">>
    [] p = "imgB" -> <<"!", "[", "]", "(">> \o UriB \o <<")">>
    [] p = "link" -> <<"!", "[", "a", "]", "(">> \o HttpA \o <<")">>

PieceUris(p) ==
  CASE p = "imgA" -> <<UriA>>
    [] p = "imgB" -> <<UriB>>
    [] OTHER -> <<>>

RECURSIVE TextOf(_)
TextOf(pieces) ==
  IF pieces = <<>> THEN <<>> ELSE PieceChars(Head(pieces)) \o TextOf(Tail(pieces))

RECURSIVE UrisOf(_)
UrisOf(pieces) ==
  IF pieces = <<>> THEN <<>> ELSE PieceUris(Head(pieces)) \o UrisOf(Tail(pieces))

Range(f) == {f[k] : k \in DOMAIN f}
SeqsUpTo(S, n) == UNION {[1..k -> S] : k \in 0..n}

TypeText == JStr(<<"t", "e", "x", "t">>)
TypeImageUrl == JStr(<<"i", "m", "a", "g", "e", "_", "u", "r", "l">>)
TypeAudio == JStr(<<"a", "u", "d", "i", "o">>)
UrlObjA == JObj([url |-> JStr(HttpA)])
UrlObjB == JObj([url |-> JStr(UriB)])

\* The typed parts a reply's content array is made of.
PartNames ==
  {"text_x", "text_imgA", "text_link", "text_missing", "image_url",
   "image_url_missing", "audio", "untyped"}

PartJson(q) ==
  CASE q = "text_x" -> JObj([type |-> TypeText, text |-> JStr(TextOf(<<"x">>))])
    [] q = "text_imgA" -> JObj([type |-> TypeText, text |-> JStr(TextOf(<<"imgA">>))])
    [] q = "text_link" -> JObj([type |-> TypeText, text |-> JStr(TextOf(<<"link">>))])
    [] q = "text_missing" -> JObj([type |-> TypeText])
    [] q = "image_url" -> JObj([type |-> TypeImageUrl, image_url |-> UrlObjA])
    [] q = "image_url_missing" -> JObj([type |-> TypeImageUrl])
    [] q = "audio" -> JObj([type |-> TypeAudio, image_url |-> UrlObjA])
    [] q = "untyped" -> JObj([image_url |-> UrlObjA])

RECURSIVE PartsJson(_)
PartsJson(items) ==
  IF items = <<>> THEN <<>> ELSE <<PartJson(Head(items))>> \o PartsJson(Tail(items))

\* A reply is described by a shape: which keys it has and what they hold.
BodyJson(shape) ==
  CASE shape.kind = "string" -> JStr(TextOf(shape.items))
    [] shape.kind = "parts" -> JArr(PartsJson(shape.items))
    [] shape.kind = "num" -> JNum(7)

ImagesJson(shape) ==
  CASE shape.imgs = "absent" -> Absent
    [] shape.imgs = "one" -> JArr(<<JObj([image_url |-> UrlObjB])>>)
    [] shape.imgs = "junk_one" ->
         JArr(<<JObj([text |-> JStr(<<"x">>)]), JObj([image_url |-> UrlObjB])>>)
    [] shape.imgs = "null" -> JNull

MessageJson(shape) ==
  CASE shape.holder = "content" ->
         JObj([content |-> BodyJson(shape), images |-> ImagesJson(shape)])
    [] shape.holder = "parts" ->
         JObj([parts |-> BodyJson(shape), images |-> ImagesJson(shape)])
    [] shape.holder = "both" ->
         JObj([content |-> BodyJson(shape),
               parts |-> JArr(<<PartJson("image_url")>>),
               images |-> ImagesJson(shape)])
    [] shape.holder = "bare" -> BodyJson(shape)
    [] shape.holder = "none" -> JObj([images |-> ImagesJson(shape)])

EnvelopeJson(opt, field, message) ==
  CASE opt = "absent" -> Absent
    [] opt = "null" -> JNull
    [] opt = "empty" -> JArr(<<>>)
    [] opt = "nofield" -> JArr(<<JObj([text |-> JStr(<<"x">>)])>>)
    [] opt = "ok" -> JArr(<<JObj(field :> message)>>)

BadKey == <<"b", "a", "d", " ", "k", "e", "y">>

ErrorJson(shape) ==
  CASE shape.err = "absent" -> Absent
    [] shape.err = "null" -> JNull
    [] shape.err = "msg" -> JObj([message |-> JStr(BadKey)])
    [] shape.err = "nomsg" -> JObj([type |-> JStr(<<"x">>)])
    [] shape.err = "nonstr" -> JObj([message |-> JNum(42)])

B64Payload == <<"Q", "Q">>

DataJson(shape) ==
  CASE shape.data = "absent" -> Absent
    [] shape.data = "b64" -> JArr(<<JObj([b64_json |-> JStr(B64Payload)])>>)
    [] shape.data = "url_b64" ->
         JArr(<<JObj([url |-> JStr(HttpA)]),
                JObj([b64_json |-> JStr(B64Payload), url |-> JStr(HttpA)])>>)
    [] shape.data = "junk" -> JArr(<<JObj([text |-> JStr(<<"x">>)]), JNull>>)
    [] shape.data = "null" -> JNull

UsageJson(shape) ==
  CASE shape.usage = "absent" -> Absent
    [] shape.usage = "ok" ->
         JObj([prompt_tokens |-> JNum(1), completion_tokens |-> JNum(2),
               total_tokens |-> JNum(3)])
    [] shape.usage = "partial" -> JObj([prompt_tokens |-> JNum(1)])

Build(shape) ==
  JObj([error |-> ErrorJson(shape),
        choices |-> EnvelopeJson(shape.choices, "message", MessageJson(shape)),
        candidates |-> EnvelopeJson(shape.candidates, "content", MessageJson(shape)),
        data |-> DataJson(shape),
        usage |-> UsageJson(shape)])

Shape(err, choices, candidates, holder, kind, items, imgs, data, usage) ==
  [err |-> err, choices |-> choices, candidates |-> candidates, holder |-> holder,
   kind |-> kind, items |-> items, imgs |-> imgs, data |-> data, usage |-> usage]

\* ------------------------------------------------------------------ state

VARIABLES
  save_directory,  \* OpenRouterServer.save_directory, the shared RwLock<String>
  call,            \* call[i]: the state of tool invocation i
  shape,           \* the shape of the reply handed to the normalizer
  response,        \* that reply
  normalized,      \* what extract_text_and_images returned for it
  scan             \* extract_images_from_markdown: its text, loop state, result

vars == <<save_directory, call, shape, response, normalized, scan>>

\* No extractor call is under way.
NoScan == [pc |-> "idle"]

Dirs == {"d1", "d2"}
\* Invocation 1 is a generate_image call, invocation 2 an edit_image call.
GenCalls == {1}
EditCalls == {2}
Invs == GenCalls \cup EditCalls

None == <<"none">>
Some(x) == <<"some", x>>

\* self.config.model, args.prompt and args.instruction
Model == "model"
Prompt == "cat"
Instruction == "edit"

\* The strings a caller passes as input images: a URL, a data URI and a
\* reference to a local file.
UrlInput == HttpsPrefix \o <<"u">>
Base64Input == DataImagePrefix \o <<"i">>
FileInput == <<"f", ".", "p">>
Inputs == {UrlInput, Base64Input, FileInput}

NoResult == [status |-> "none"]
ErrResult(kind, detail) == [status |-> "err", kind |-> kind, detail |-> detail]
OkResult(report) == [status |-> "ok", report |-> report]

IdleCall ==
  [pc |-> "idle", op |-> "none", images |-> <<>>, content |-> <<>>,
   resolved |-> <<>>, lookups |-> <<>>, events |-> <<>>,
   response_data |-> Absent, extracted |-> None, current_save_dir |-> "none",
   result |-> NoResult]

\* -------------------------------------------- image_utils (not in src/)

\* detect_and_process_image_input: a URL or a data URI is passed on unchanged;
\* anything else is read as a local file, which the file system decides.
FileDataUri(where, input) == PngBase64Prefix \o <<"bytes of ", where>> \o input

detect_and_process_image_input(input, readable) ==
  IF StartsWith(input, HttpPrefix) \/ StartsWith(input, HttpsPrefix)
    THEN [ok |-> TRUE, content_type |-> "url", data |-> input]
  ELSE IF StartsWith(input, DataImagePrefix)
    THEN [ok |-> TRUE, content_type |-> "base64", data |-> input]
  ELSE IF readable
    THEN [ok |-> TRUE, content_type |-> "base64", data |-> FileDataUri("./", input)]
  ELSE [ok |-> FALSE]

\* find_image_in_save_directory: the file of that name in the save directory.
find_image_in_save_directory(input, dir, found) ==
  IF found THEN [ok |-> TRUE, content_type |-> "base64", data |-> FileDataUri(dir, input)]
  ELSE [ok |-> FALSE]

\* extract_filename_without_extension: the name up to its last dot.
extract_filename_without_extension(name) ==
  LET dots == {i \in 1..Len(name) : name[i] = "."}
  IN IF dots = {} THEN name
     ELSE SubSeq(name, 1, (CHOOSE i \in dots : \A j \in dots : j <= i) - 1)

\* The source of a descriptor: its image_url.url string.
DescriptorUrl(d) ==
  LET u == Get(Get(d, "image_url"), "url") IN IF IsStr(u) THEN u[2] ELSE <<>>

\* save_response_images: one SavedImageInfo per descriptor, in order; fate[k]
\* tells whether image k could be decoded, fetched and written.
save_response_images(images_array, dir, base_filename, is_edit, fate) ==
  [k \in 1..Len(images_array) |->
     [url |-> DescriptorUrl(images_array[k]),
      saved_path |-> IF fate[k] = "saved"
                       THEN Some([dir |-> dir, base |-> base_filename,
                                  edit |-> is_edit, index |-> k])
                     ELSE None,
      debug_info |-> IF fate[k] = "saved" THEN <<>> ELSE <<"cause of failure">>]]

Fates(n) == [1..n -> {"saved", "failed"}]

\* ---------------------------------------------------------- the two tools

\* json!({"type": "text", "text": t}) and
\* json!({"type": "image_url", "image_url": {"url": u}})
TextPart(t) == [type |-> "text", text |-> t]
ImagePart(u) == [type |-> "image_url", image_url |-> [url |-> u]]

\* The replies the upstream answers a call with.
PlayShapes ==
  {Shape("msg", "ok", "absent", "content", "string", <<"hello">>, "absent", "absent", "absent"),
   Shape("absent", "empty", "ok", "content", "string", <<"hello">>, "absent", "absent", "absent"),
   Shape("absent", "ok", "absent", "content", "string", <<"hello">>, "absent", "absent", "partial"),
   Shape("absent", "absent", "ok", "parts", "parts", <<"text_x", "image_url">>, "absent", "absent", "ok"),
   Shape("absent", "ok", "absent", "content", "string", <<"imgA", "plain">>, "one", "absent", "absent"),
   Shape("absent", "absent", "absent", "none", "num", <<>>, "absent", "b64", "absent"),
   Shape("absent", "ok", "absent", "content", "string", <<"hello">>, "absent", "b64", "absent")}

PlayReplies == {Build(s) : s \in PlayShapes}

\* The first characters of a source shown in a report line.
PreviewLen == 50
Preview(url) == SubSeq(url, 1, IF Len(url) < PreviewLen THEN Len(url) ELSE PreviewLen)

\* The usage statistics of a report: present when the reply carries all
\* three counters as unsigned numbers.
UsageOf(response_data) ==
  LET usage == Get(response_data, "usage")
      p == Get(usage, "prompt_tokens")
      c == Get(usage, "completion_tokens")
      t == Get(usage, "total_tokens")
  IN IF IsSome(usage) /\ IsU64(p) /\ IsU64(c) /\ IsU64(t)
       THEN Some(<<p[2], c[2], t[2]>>)
     ELSE None

Log(i, e) == Append(call[i].events, e)

\* generate_image up to the await of the request (lines 36-52).
generate_image(i) ==
  /\ i \in GenCalls
  /\ call[i].pc = "idle"
  /\ call' = [call EXCEPT ![i].pc = "await",
                          ![i].op = "generate_image",
                          ![i].content = <<TextPart(Prompt)>>,
                          ![i].events = Log(i, "send")]
  /\ UNCHANGED <<save_directory, shape, response, normalized, scan>>

\* edit_image without the test for an empty image list.
edit_image_unchecked(i) ==
  /\ i \in EditCalls
  /\ call[i].pc = "idle"
  /\ \E images \in SeqsUpTo(Inputs, MaxImages) :
     call' = [call EXCEPT ![i].pc = "classify",
                          ![i].op = "edit_image",
                          ![i].images = images,
                          ![i].content = <<TextPart(Instruction)>>]
  /\ UNCHANGED <<save_directory, shape, response, normalized, scan>>

\* edit_image up to the loop over the input images (lines 143-155).
edit_image(i) ==
  /\ i \in EditCalls
  /\ call[i].pc = "idle"
  /\ \E images \in SeqsUpTo(Inputs, MaxImages) :
     call' = IF images = <<>>
                  THEN [call EXCEPT ![i].pc = "done",
                                    ![i].op = "edit_image",
                                    ![i].result = ErrResult("Usage", <<>>)]
                ELSE [call EXCEPT ![i].pc = "classify",
                                  ![i].op = "edit_image",
                                  ![i].images = images,
                                  ![i].content = <<TextPart(Instruction)>>]
  /\ UNCHANGED <<save_directory, shape, response, normalized, scan>>

\* ClassifyInput where an input that nothing resolves ends the call with an
\* error.
ClassifyInput_abort(i) ==
  /\ call[i].pc = "classify"
  /\ Len(call[i].content) <= Len(call[i].images)
  /\ \E readable \in BOOLEAN, found \in BOOLEAN :
     LET image_input == call[i].images[Len(call[i].content)]
         direct == detect_and_process_image_input(image_input, readable)
         current_save_dir == save_directory
         fallback == find_image_in_save_directory(image_input, current_save_dir, found)
     IN call' =
          IF direct.ok
            THEN [call EXCEPT ![i].content = Append(@, ImagePart(direct.data)),
                              ![i].resolved = Append(@, direct.content_type)]
          ELSE IF fallback.ok
            THEN [call EXCEPT ![i].content = Append(@, ImagePart(fallback.data)),
                              ![i].resolved = Append(@, "save_directory"),
                              ![i].lookups = Append(@, current_save_dir),
                              ![i].events = Log(i, "read_dir")]
          ELSE [call EXCEPT ![i].pc = "done",
                            ![i].resolved = Append(@, "unresolved"),
                            ![i].lookups = Append(@, current_save_dir),
                            ![i].events = Log(i, "read_dir"),
                            ![i].result = ErrResult("InputUnrecognized", <<>>)]
  /\ UNCHANGED <<save_directory, shape, response, normalized, scan>>

\* One iteration of the loop over args.images (lines 157-201): readable and
\* found are the file system's answers.
ClassifyInput(i) ==
  /\ call[i].pc = "classify"
  /\ Len(call[i].content) <= Len(call[i].images)
  /\ \E readable \in BOOLEAN, found \in BOOLEAN :
     LET image_input == call[i].images[Len(call[i].content)]
         direct == detect_and_process_image_input(image_input, readable)
         current_save_dir == save_directory
         fallback == find_image_in_save_directory(image_input, current_save_dir, found)
     IN call' =
          IF direct.ok
            THEN [call EXCEPT ![i].content = Append(@, ImagePart(direct.data)),
                              ![i].resolved = Append(@, direct.content_type)]
          ELSE IF fallback.ok
            THEN [call EXCEPT ![i].content = Append(@, ImagePart(fallback.data)),
                              ![i].resolved = Append(@, "save_directory"),
                              ![i].lookups = Append(@, current_save_dir),
                              ![i].events = Log(i, "read_dir")]
          ELSE [call EXCEPT ![i].content = Append(@, ImagePart(image_input)),
                            ![i].resolved = Append(@, "unresolved"),
                            ![i].lookups = Append(@, current_save_dir),
                            ![i].events = Log(i, "read_dir")]
  /\ UNCHANGED <<save_directory, shape, response, normalized, scan>>

\* edit_image from the end of the loop to the await of the request
\* (lines 203-213).
SendEdit(i) ==
  /\ call[i].pc = "classify"
  /\ Len(call[i].content) > Len(call[i].images)
  /\ call' = [call EXCEPT ![i].pc = "await", ![i].events = Log(i, "send")]
  /\ UNCHANGED <<save_directory, shape, response, normalized, scan>>

\* send() fails (lines 132 and 304).
SendFailed(i) ==
  /\ call[i].pc = "await"
  /\ call' = [call EXCEPT ![i].pc = "done",
                          ![i].events = Log(i, "send_failed"),
                          ![i].result = ErrResult("RequestFailed", <<>>)]
  /\ UNCHANGED <<save_directory, shape, response, normalized, scan>>

\* The upstream answers with a status that is no success (lines 55-64 and
\* 216-225).
HttpError(i) ==
  /\ call[i].pc = "await"
  /\ call' = [call EXCEPT ![i].pc = "done",
                          ![i].events = Log(i, "http_error"),
                          ![i].result = ErrResult("ApiStatus", <<>>)]
  /\ UNCHANGED <<save_directory, shape, response, normalized, scan>>

\* The body of the answer is no JSON (lines 126-129 and 298-301).
ParseFailed(i) ==
  /\ call[i].pc = "await"
  /\ call' = [call EXCEPT ![i].pc = "done",
                          ![i].events = Log(i, "parse_failed"),
                          ![i].result = ErrResult("ParseFailed", <<>>)]
  /\ UNCHANGED <<save_directory, shape, response, normalized, scan>>

\* What a call does with the outcome r of the normalization: an error ends
\* it (the ? of lines 68 and 229), a success leaves it waiting for the read
\* lock of save_directory.
Received(i, response_data, r) ==
  IF r.ok
    THEN [call EXCEPT ![i].pc = "persist",
                      ![i].response_data = response_data,
                      ![i].extracted = Some(r),
                      ![i].events = Log(i, "normalized")]
  ELSE [call EXCEPT ![i].pc = "done",
                    ![i].response_data = response_data,
                    ![i].events = Log(i, "normalize_failed"),
                    ![i].result = ErrResult(r.kind, r.detail)]

\* The answer parses to response_data and is normalized (lines 66-68 and
\* 227-229).
ReceiveReply(i) ==
  /\ call[i].pc = "await"
  /\ \E response_data \in PlayReplies :
       call' = Received(i, response_data, extract_text_and_images(response_data))
  /\ UNCHANGED <<save_directory, shape, response, normalized, scan>>

\* The line of a generate_image report for one saved image (lines 90-107).
GenerateLine(index, img_info) ==
  [index |-> index,
   preview |-> Preview(img_info.url),
   saved_to |-> img_info.saved_path,
   not_saved |-> img_info.saved_path = None,
   debug |-> img_info.debug_info]

\* GenerateSaveAndReport where a batch of which no image was saved ends the
\* call with an error.
GenerateSaveAndReport_escalate(i) ==
  /\ i \in GenCalls
  /\ call[i].pc = "persist"
  /\ \E fate \in Fates(Len(call[i].extracted[2].images)) :
     LET content == call[i].extracted[2].text
         images_array == call[i].extracted[2].images
         current_save_dir == save_directory
         saved_images == save_response_images(images_array, current_save_dir,
                                              Some("generated_image"), FALSE, fate)
         report == [model |-> Model, prompt |-> Prompt,
                    save_dir |-> current_save_dir, response |-> content,
                    count |-> IF images_array # <<>> THEN Some(Len(images_array))
                              ELSE None,
                    lines |-> IF images_array # <<>>
                                THEN [k \in 1..Len(saved_images) |->
                                        GenerateLine(k, saved_images[k])]
                              ELSE <<>>,
                    usage |-> UsageOf(call[i].response_data)]
     IN call' = [call EXCEPT ![i].pc = "done",
                             ![i].current_save_dir = current_save_dir,
                             ![i].events = Log(i, "read_dir") \o <<"persist">>,
                             ![i].result =
                               IF images_array # <<>> /\ "saved" \notin Range(fate)
                                 THEN ErrResult("NothingSaved", <<>>)
                               ELSE OkResult(report)]
  /\ UNCHANGED <<save_directory, shape, response, normalized, scan>>

\* generate_image from the read of save_directory to its result
\* (lines 70-124).
GenerateSaveAndReport(i) ==
  /\ i \in GenCalls
  /\ call[i].pc = "persist"
  /\ \E fate \in Fates(Len(call[i].extracted[2].images)) :
     LET content == call[i].extracted[2].text
         images_array == call[i].extracted[2].images
         current_save_dir == save_directory
         saved_images == save_response_images(images_array, current_save_dir,
                                              Some("generated_image"), FALSE, fate)
         report == [model |-> Model, prompt |-> Prompt,
                    save_dir |-> current_save_dir, response |-> content,
                    count |-> IF images_array # <<>> THEN Some(Len(images_array))
                              ELSE None,
                    lines |-> IF images_array # <<>>
                                THEN [k \in 1..Len(saved_images) |->
                                        GenerateLine(k, saved_images[k])]
                              ELSE <<>>,
                    usage |-> UsageOf(call[i].response_data)]
     IN call' = [call EXCEPT ![i].pc = "done",
                                ![i].current_save_dir = current_save_dir,
                                ![i].events = Log(i, "read_dir") \o <<"persist">>,
                                ![i].result = OkResult(report)]
  /\ UNCHANGED <<save_directory, shape, response, normalized, scan>>

\* The line of an edit_image report for one saved image (lines 269-279).
EditLine(index, img_info) ==
  [index |-> index,
   preview |-> Preview(img_info.url),
   saved_to |-> img_info.saved_path,
   not_saved |-> FALSE,
   debug |-> <<>>]

\* The base file name of the images an edit saves (lines 236-248).
BaseFilename(images) ==
  IF images # <<>>
    THEN IF /\ ~StartsWith(images[1], HttpPrefix)
            /\ ~StartsWith(images[1], HttpsPrefix)
            /\ ~StartsWith(images[1], DataImagePrefix)
           THEN Some(extract_filename_without_extension(images[1]))
         ELSE None
  ELSE None

\* edit_image from the read of save_directory to its result (lines 231-296).
EditSaveAndReport(i) ==
  /\ i \in EditCalls
  /\ call[i].pc = "persist"
  /\ \E fate \in Fates(Len(call[i].extracted[2].images)) :
     LET content == call[i].extracted[2].text
         images_array == call[i].extracted[2].images
         current_save_dir == save_directory
         saved_images == save_response_images(images_array, current_save_dir,
                                              BaseFilename(call[i].images), TRUE, fate)
         report == [model |-> Model, instruction |-> Instruction,
                    input_count |-> Len(call[i].images), response |-> content,
                    count |-> IF images_array # <<>> THEN Some(Len(images_array))
                              ELSE None,
                    lines |-> IF images_array # <<>>
                                THEN [k \in 1..Len(saved_images) |->
                                        EditLine(k, saved_images[k])]
                              ELSE <<>>,
                    usage |-> UsageOf(call[i].response_data)]
     IN call' = [call EXCEPT ![i].pc = "done",
                                ![i].current_save_dir = current_save_dir,
                                ![i].events = Log(i, "read_dir") \o <<"persist">>,
                                ![i].result = OkResult(report)]
  /\ UNCHANGED <<save_directory, shape, response, normalized, scan>>

\* The administrative update of the save directory.
set_save_directory(dir) ==
  /\ dir # save_directory
  /\ save_directory' = dir
  /\ UNCHANGED <<call, shape, response, normalized, scan>>

NoShape == Shape("absent", "absent", "absent", "none", "num", <<>>, "absent", "absent", "absent")

Init ==
  /\ save_directory \in Dirs
  /\ call = [i \in Invs |-> IdleCall]
  /\ shape = NoShape
  /\ response = Absent
  /\ normalized = None
  /\ scan = NoScan

Next ==
  \/ \E i \in Invs : generate_image(i)
  \/ \E i \in Invs : edit_image(i)
  \/ \E i \in Invs : ClassifyInput(i)
  \/ \E i \in Invs : SendEdit(i)
  \/ \E i \in Invs : SendFailed(i)
  \/ \E i \in Invs : HttpError(i)
  \/ \E i \in Invs : ParseFailed(i)
  \/ \E i \in Invs : ReceiveReply(i)
  \/ \E i \in Invs : GenerateSaveAndReport(i)
  \/ \E i \in Invs : EditSaveAndReport(i)
  \/ \E dir \in Dirs : set_save_directory(dir)

Spec == Init /\ [][Next]_vars

\* ------------------------------------------ the normalizer on its own

\* The replies the normalizer is applied to.  EnvelopeShapes vary the error
\* key and the two envelopes around a fixed message; TextShapes and
\* PartShapes vary the message around a well-formed envelope.
Envelopes == {"absent", "null", "empty", "nofield", "ok"}
GoodEnvelopes == {<<"ok", "absent">>, <<"absent", "ok">>}

EnvelopeShapes ==
  {Shape(e, ch, ca, "content", b[1], b[2], "absent", d, "absent") :
     e \in {"absent", "null", "msg", "nomsg", "nonstr"},
     ch \in Envelopes, ca \in Envelopes,
     b \in {<<"string", <<"hello">>>>, <<"parts", <<"text_x", "image_url">>>>},
     d \in {"absent", "b64"}}

TextShapes ==
  {Shape("absent", env[1], env[2], h, "string", t, i, d, "absent") :
     env \in GoodEnvelopes, h \in {"content", "parts", "both", "bare"},
     t \in SeqsUpTo(PieceNames, MaxPieces),
     i \in {"absent", "junk_one"}, d \in {"absent", "url_b64", "junk"}}

PartShapes ==
  {Shape("absent", env[1], env[2], h, "parts", q, i, d, "absent") :
     env \in GoodEnvelopes, h \in {"content", "parts", "bare"},
     q \in SeqsUpTo(PartNames, MaxParts),
     i \in {"absent", "one"}, d \in {"absent", "b64", "url_b64"}}

OtherShapes ==
  {Shape("absent", env[1], env[2], h, "num", <<>>, i, d, "absent") :
     env \in GoodEnvelopes, h \in {"content", "bare", "none"},
     i \in {"absent", "one", "junk_one", "null"},
     d \in {"absent", "b64", "url_b64", "junk", "null"}}

NormShapes == EnvelopeShapes \cup TextShapes \cup PartShapes \cup OtherShapes

\* extract_text_and_images applied to the reply.
Normalize ==
  /\ normalized = None
  /\ normalized' = Some(extract_text_and_images(response))
  /\ UNCHANGED <<save_directory, call, shape, response, scan>>

NormInit ==
  /\ save_directory = "d1"
  /\ call = [i \in Invs |-> IdleCall]
  /\ shape \in NormShapes
  /\ response = Build(shape)
  /\ normalized = None
  /\ scan = NoScan

NormNext == Normalize

SpecNorm == NormInit /\ [][NormNext]_vars

\* ------------------------------------------- the markdown extractor, stepwise

\* The pieces a scanned text is concatenated from: those of a reply text and
\* the malformed ones: a "![" with no "](" after it, a "](" not followed by
\* data:image/ (the piece "link"), a data URI without its closing ")", and
\* the single characters a marker is made of.
MdPieceNames == PieceNames \cup {"open", "unclosed", "bang", "close"}

MdPieceChars(p) ==
  CASE p = "open" -> <<"!", "[">>
    [] p = "unclosed" -> <<"!", "[", "a", "]", "(">> \o UriB
    [] p = "bang" -> <<"!">>
    [] p = "close" -> <<")">>
    [] OTHER -> PieceChars(p)

RECURSIVE MdTextOf(_)
MdTextOf(pieces) ==
  IF pieces = <<>> THEN <<>> ELSE MdPieceChars(Head(pieces)) \o MdTextOf(Tail(pieces))

\* The call while its loop runs: the text it was given, and cleaned_text and
\* images as they stand; "exit" once the loop has broken (line 346).
Scanning(pieces, text, st) ==
  [pc |-> IF st.done THEN "exit" ELSE "loop", pieces |-> pieces, text |-> text,
   cleaned_text |-> st.cleaned_text, images |-> st.images]

\* One iteration of the loop of lines 323-348, the break included.
MdIterate ==
  /\ scan.pc = "loop"
  /\ \E start \in {Find(scan.cleaned_text, MdOpen)} :
       \E st \in {MdOpenAt(MdState(scan.cleaned_text, scan.images, FALSE), start)} :
         scan' = Scanning(scan.pieces, scan.text, st)
  /\ UNCHANGED <<save_directory, call, shape, response, normalized>>

\* Line 350: the trimmed text and the images are returned.
MdReturn ==
  /\ scan.pc = "exit"
  /\ scan' = [pc |-> "returned", pieces |-> scan.pieces, text |-> scan.text,
              result |-> MdResult(MdState(scan.cleaned_text, scan.images, TRUE))]
  /\ UNCHANGED <<save_directory, call, shape, response, normalized>>

\* Lines 318-320: the call starts with the whole text and no image.
MdInit ==
  /\ save_directory = "d1"
  /\ call = [i \in Invs |-> IdleCall]
  /\ shape = NoShape
  /\ response = Absent
  /\ normalized = None
  /\ \E pieces \in SeqsUpTo(MdPieceNames, MaxPieces) :
       scan = Scanning(pieces, MdTextOf(pieces),
                       MdState(MdTextOf(pieces), <<>>, FALSE))

MdNext == MdIterate \/ MdReturn

\* The loop runs on its own once the function is called: each iteration that
\* can be taken is taken.
SpecMd == MdInit /\ [][MdNext]_vars /\ WF_vars(MdNext)

\* ------------------------------------------------------------- the claims

\* The outcome of the normalization, once it has run.
Outcome == normalized[2]
Normalized == normalized # None

MalformedKinds ==
  {"ChoicesEmpty", "ChoicesMessageMissing", "CandidatesEmpty",
   "CandidatesContentMissing", "NoChoicesOrCandidates"}

Malformed(r) == ~r.ok /\ r.kind \in MalformedKinds

\* C1: an edit_image call with an empty image list ends with the usage error
\* and has done nothing else: it sent no request, read no save directory,
\* normalized no reply and persisted no image.
C1_EmptyImagesFailBeforeAnyRequest ==
  \A i \in Invs :
    (call[i].op = "edit_image" /\ call[i].images = <<>>) =>
      /\ call[i].pc = "done"
      /\ call[i].result = ErrResult("Usage", <<>>)
      /\ call[i].events = <<>>
      /\ call[i].lookups = <<>>
      /\ call[i].current_save_dir = "none"

C1_Witness ==
  \E i \in Invs :
    /\ call[i].op = "edit_image"
    /\ call[i].images = <<>>
    /\ call[i].result.status = "err"

\* C2 as stated: a reply with an error key fails with the upstream error,
\* whatever else it holds, and the error carries the message of the error
\* object whenever the object has one, the default text when it has none.
C2_ErrorKeyCarriesItsMessage ==
  (Normalized /\ shape.err # "absent") =>
    /\ ~Outcome.ok
    /\ Outcome.kind = "ApiError"
    /\ IF IsSome(Get(Get(response, "error"), "message"))
         THEN Outcome.detail # UnknownError
       ELSE Outcome.detail = UnknownError

\* C2, amended: a reply with an error key fails with the upstream error,
\* whatever else it holds; the error carries the message of the error object
\* when that is a string, and the default text when the message is absent or
\* is not a string.
C2_ErrorKeyAlwaysFails ==
  (Normalized /\ shape.err # "absent") =>
    /\ ~Outcome.ok
    /\ Outcome.kind = "ApiError"
    /\ Outcome.detail = IF shape.err = "msg" THEN BadKey ELSE UnknownError

C2_Witness ==
  /\ Normalized
  /\ shape.err = "msg"
  /\ shape.choices = "ok"
  /\ shape.data = "b64"
  /\ Outcome = Err("ApiError", BadKey)

AbortEvents == {"send_failed", "http_error", "parse_failed", "normalize_failed"}

\* C3: a call in which the request failed, the status was no success, the
\* body did not parse or the normalization failed is over with an error
\* result; and a call with an error result has read no save directory for
\* persistence, has persisted nothing and reports no text and no image.
C3_AbortBeforePersistence ==
  \A i \in Invs :
    /\ Range(call[i].events) \cap AbortEvents # {} =>
         call[i].pc = "done" /\ call[i].result.status = "err"
    /\ call[i].result.status = "err" =>
         /\ "persist" \notin Range(call[i].events)
         /\ call[i].current_save_dir = "none"
         /\ DOMAIN call[i].result = {"status", "kind", "detail"}
    /\ "persist" \in Range(call[i].events) => call[i].result.status = "ok"

C3_Witness ==
  \E i \in Invs :
    /\ "send" \in Range(call[i].events)
    /\ "normalize_failed" \in Range(call[i].events)
    /\ call[i].result.status = "err"
    /\ call[i].result.kind \in MalformedKinds

\* The reply of an images endpoint: a data array with one b64_json entry.
ImagesEndpointReply ==
  Build(Shape("absent", "absent", "absent", "none", "num", <<>>, "absent", "b64", "absent"))

\* C4: a generate_image call answered with the reply of an images endpoint
\* succeeds and reports one image, the data URI made of its b64_json.
C4_ImagesEndpointReplySucceeds ==
  \A i \in GenCalls :
    (call[i].pc = "done" /\ call[i].response_data = ImagesEndpointReply) =>
      /\ call[i].result.status = "ok"
      /\ call[i].result.report.count = Some(1)
      /\ call[i].result.report.lines[1].preview = Preview(PngBase64Prefix \o B64Payload)

\* C5: in the report of a call that succeeded, every image without a saved
\* path carries the not-saved marker and the reason.
C5_UnsavedImagesAreMarked ==
  \A i \in Invs :
    call[i].result.status = "ok" =>
      \A k \in DOMAIN call[i].result.report.lines :
        call[i].result.report.lines[k].saved_to = None =>
          /\ call[i].result.report.lines[k].not_saved
          /\ call[i].result.report.lines[k].debug # <<>>

\* The values of save_directory a call has read.
DirsRead(i) ==
  Range(call[i].lookups)
    \cup (IF call[i].current_save_dir = "none" THEN {} ELSE {call[i].current_save_dir})

\* C6: all reads of the save directory within one call give the same value.
C6_OneDirectoryPerCall ==
  \A i \in Invs : Cardinality(DirsRead(i)) <= 1

\* C7: an edit_image call with a non-empty image list is never ended by an
\* input that could not be resolved: the only errors come after the request
\* was sent.  The content is the instruction text followed by one image_url
\* part per input handled so far, in input order; the part of an unresolved
\* input holds the input itself; and the content sent holds a part for every
\* input.
C7_UnresolvedInputIsForwarded ==
  \A i \in Invs :
    (call[i].op = "edit_image" /\ call[i].images # <<>>) =>
      /\ call[i].result.status = "err" => "send" \in Range(call[i].events)
      /\ call[i].content[1] = TextPart(Instruction)
      /\ Len(call[i].resolved) = Len(call[i].content) - 1
      /\ Len(call[i].content) <= Len(call[i].images) + 1
      /\ call[i].pc # "classify" => Len(call[i].content) = Len(call[i].images) + 1
      /\ \A k \in 1..Len(call[i].resolved) :
           /\ call[i].content[k + 1].type = "image_url"
           /\ call[i].content[k + 1].image_url.url \in
                CASE call[i].resolved[k] = "unresolved" -> {call[i].images[k]}
                  [] call[i].resolved[k] = "url" -> {call[i].images[k]}
                  [] call[i].resolved[k] = "base64" ->
                       {call[i].images[k], FileDataUri("./", call[i].images[k])}
                  [] call[i].resolved[k] = "save_directory" ->
                       {FileDataUri(d, call[i].images[k]) : d \in Dirs}

C7_Witness ==
  \E i \in Invs :
    /\ call[i].op = "edit_image"
    /\ call[i].pc = "await"
    /\ Len(call[i].images) = 2
    /\ call[i].resolved = <<"url", "unresolved">>
    /\ call[i].content[3] = ImagePart(FileInput)

\* What the envelope of a reply without an error key leads to when the
\* envelope named by first decides and the other is read only if first is
\* among the values passed over.
EnvelopeOutcome(first, second, passed) ==
  IF first \notin passed
    THEN IF first = "ok" THEN "located" ELSE "malformed"
  ELSE IF second = "ok" THEN "located"
  ELSE "malformed"

Agrees(r, outcome) == IF outcome = "located" THEN r.ok ELSE Malformed(r)

\* C8 as stated: candidates are read only when the reply has no choices key;
\* an empty array, or a first element without the nested field, is a
\* malformed reply, and so is a reply with neither key.
C8_CandidatesOnlyWhenChoicesAbsent ==
  (Normalized /\ shape.err = "absent") =>
    Agrees(Outcome, EnvelopeOutcome(shape.choices, shape.candidates, {"absent"}))

\* C8, amended: candidates are read only when choices is absent or is not an
\* array; an empty choices array or a first choice without message is a
\* malformed reply even beside well-formed candidates, and so are an empty
\* candidates array, a first candidate without content, and a reply where
\* neither key holds an array.
C8_CandidatesOnlyWithoutChoicesArray ==
  (Normalized /\ shape.err = "absent") =>
    /\ Agrees(Outcome,
              EnvelopeOutcome(shape.choices, shape.candidates, {"absent", "null"}))
    /\ shape.choices = "empty" => Outcome = Err("ChoicesEmpty", <<>>)
    /\ shape.choices = "nofield" => Outcome = Err("ChoicesMessageMissing", <<>>)

C8_Witness ==
  /\ Normalized
  /\ shape.err = "absent"
  /\ shape.choices = "empty"
  /\ shape.candidates = "ok"
  /\ Malformed(Outcome)

\* The images a reply carries, read off its shape: those of the selected
\* content, then those of message.images, and those of the data array.
PartImages(q) ==
  CASE q = "text_imgA" -> <<UrlDescriptor(JStr(UriA))>>
    [] q = "image_url" -> <<Descriptor(UrlObjA)>>
    [] OTHER -> <<>>

RECURSIVE PartsImages(_)
PartsImages(items) ==
  IF items = <<>> THEN <<>> ELSE PartImages(Head(items)) \o PartsImages(Tail(items))

ContentImages(sh) ==
  IF sh.holder = "none" THEN <<>>
  ELSE CASE sh.kind = "string" -> UrlDescriptors(UrisOf(sh.items))
         [] sh.kind = "parts" -> PartsImages(sh.items)
         [] OTHER -> <<>>

MessageImages(sh) ==
  IF sh.holder # "bare" /\ sh.imgs \in {"one", "junk_one"}
    THEN <<Descriptor(UrlObjB)>>
  ELSE <<>>

DataImages(sh) ==
  CASE sh.data = "b64" -> <<UrlDescriptor(JStr(PngBase64Prefix \o B64Payload))>>
    [] sh.data = "url_b64" ->
         <<UrlDescriptor(JStr(HttpA)), UrlDescriptor(JStr(PngBase64Prefix \o B64Payload))>>
    [] OTHER -> <<>>

\* C9: a reply that normalizes yields exactly one descriptor for each image
\* of its selected content (typed image_url parts and markdown images, in
\* order) and each entry of message.images, in that order, and the entries
\* of the data array are added exactly when there is none of those.
C9_NoImageLostOrDuplicated ==
  (Normalized /\ Outcome.ok) =>
    Outcome.images =
      IF ContentImages(shape) \o MessageImages(shape) # <<>>
        THEN ContentImages(shape) \o MessageImages(shape)
      ELSE DataImages(shape)

C9_Witness ==
  /\ Normalized
  /\ Outcome.ok
  /\ ContentImages(shape) # <<>>
  /\ MessageImages(shape) # <<>>
  /\ DataImages(shape) # <<>>
  /\ Len(Outcome.images) = Len(ContentImages(shape)) + 1

\* The text fragments of a reply, read off its shape: the cleaned text of
\* the string content, or of each text part in order, the empty ones left
\* out.
PartText(q) ==
  CASE q = "text_x" -> <<extract_images_from_markdown(TextOf(<<"x">>)).cleaned_text>>
    [] q = "text_imgA" -> <<extract_images_from_markdown(TextOf(<<"imgA">>)).cleaned_text>>
    [] q = "text_link" -> <<extract_images_from_markdown(TextOf(<<"link">>)).cleaned_text>>
    [] OTHER -> <<>>

RECURSIVE PartsTexts(_)
PartsTexts(items) ==
  IF items = <<>> THEN <<>> ELSE PartText(Head(items)) \o PartsTexts(Tail(items))

Fragments(sh) ==
  SelectSeq(IF sh.holder = "none" THEN <<>>
            ELSE CASE sh.kind = "string" ->
                        <<extract_images_from_markdown(TextOf(sh.items)).cleaned_text>>
                   [] sh.kind = "parts" -> PartsTexts(sh.items)
                   [] OTHER -> <<>>,
            LAMBDA t : t # <<>>)

\* C10: the content scanned is message.content when the message has it, else
\* message.parts, else the message itself; of a sequence of typed parts each
\* text part gives its cleaned text as a fragment, each image_url part one
\* descriptor of its image_url value, in part order, and any other part
\* nothing.  The two replies of the claim give "x" with the one image
\* http://a, and "hello" with no image.
C10_ContentSelectionAndTypedParts ==
  (Normalized /\ Outcome.ok) =>
    /\ Outcome.text = IF Fragments(shape) = <<>> THEN NoContent
                      ELSE Join(Fragments(shape), <<"\n">>)
    /\ Len(Outcome.images) >= Len(ContentImages(shape))
    /\ SubSeq(Outcome.images, 1, Len(ContentImages(shape))) = ContentImages(shape)
    /\ response = Build(Shape("absent", "absent", "ok", "parts", "parts",
                              <<"text_x", "image_url">>, "absent", "absent", "absent"))
         => /\ Outcome.text = <<"x">>
            /\ Len(Outcome.images) = 1
            /\ DescriptorUrl(Outcome.images[1]) = HttpA
    /\ response = Build(Shape("absent", "ok", "absent", "content", "string",
                              <<"hello">>, "absent", "absent", "absent"))
         => Outcome = Ok(<<"h", "e", "l", "l", "o">>, <<>>)

C10_Witness ==
  /\ Normalized
  /\ shape = Shape("absent", "absent", "ok", "parts", "parts",
                   <<"text_x", "image_url">>, "absent", "absent", "absent")
  /\ Outcome.ok
  /\ Outcome.text = <<"x">>

\* ---------------------------------------------- claims on the extractor

Returned == scan.pc = "returned"

\* The pieces that are a complete markdown image, and the ones that hold a
\* "![" leading to no complete image.
ImagePieces == {p \in MdPieceNames : PieceUris(p) # <<>>}
UnmatchedPieces == {"open", "link", "unclosed"}

\* Every image of the text lies within one piece: no "![" without "](" comes
\* before a piece bringing a "](data:image/", and no unclosed data URI before
\* a piece bringing a ")".
PiecewiseImages(pieces) ==
  \A i, j \in DOMAIN pieces :
    i < j =>
      /\ ~(pieces[i] = "open" /\ pieces[j] \in ImagePieces \cup {"unclosed"})
      /\ ~(pieces[i] = "unclosed" /\ pieces[j] \in ImagePieces \cup {"link", "close"})

\* The text with exactly its image spans removed.
RECURSIVE PlainOf(_)
PlainOf(pieces) ==
  IF pieces = <<>> THEN <<>>
  ELSE (IF Head(pieces) \in ImagePieces THEN <<>> ELSE MdPieceChars(Head(pieces)))
       \o PlainOf(Tail(pieces))

\* C11: a "![" that leads to no complete image is left in place: the cleaned
\* text is the input with exactly the image spans removed, trimmed, so that
\* ![a](http://a) comes back as it went in.
C11_UnmatchedMarkerLeftInPlace ==
  (Returned /\ PiecewiseImages(scan.pieces)) =>
    scan.result.cleaned_text = Trim(PlainOf(scan.pieces))

\* C12: the extractor returns on every text, the malformed ones included: a
\* "![" with no "](" after it, a "](" not followed by data:image/, a data URI
\* with no closing parenthesis.
C12_ScanTerminates == <>Returned

C12_Witness ==
  /\ Returned
  /\ scan.pieces = <<"link", "unclosed">>
  /\ scan.result.images = <<>>

\* What the scan leaves of a piece: nothing of an image, and of a piece with
\* an unmatched "![" everything but these two characters.
KeptChars(p) ==
  CASE p \in ImagePieces -> <<>>
    [] p \in UnmatchedPieces -> SubSeq(MdPieceChars(p), 3, Len(MdPieceChars(p)))
    [] OTHER -> MdPieceChars(p)

RECURSIVE KeptOf(_)
KeptOf(pieces) ==
  IF pieces = <<>> THEN <<>> ELSE KeptChars(Head(pieces)) \o KeptOf(Tail(pieces))

\* C13: every data URI of a markdown image of the text is returned, in the
\* order of the images; each image's whole span is removed and what remains
\* is returned trimmed.  With no unmatched "![" in the text what remains is
\* the text without the spans; ![a](data:image/png;base64,AAAA)plain gives
\* "plain" and the one URI.
C13_AllImagesInOrderSpansRemoved ==
  (Returned /\ PiecewiseImages(scan.pieces)) =>
    /\ scan.result.images = UrisOf(scan.pieces)
    /\ scan.result.cleaned_text = Trim(KeptOf(scan.pieces))
    /\ (\A k \in DOMAIN scan.pieces : scan.pieces[k] \notin UnmatchedPieces)
         => scan.result.cleaned_text = Trim(PlainOf(scan.pieces))
    /\ scan.pieces = <<"imgA", "plain">>
         => scan.result = [cleaned_text |-> <<"p", "l", "a", "i", "n">>,
                           images |-> <<UriA>>]

C13_Witness ==
  /\ Returned
  /\ scan.pieces = <<"imgA", "imgB">>
  /\ scan.result.images = <<UriA, UriB>>
  /\ scan.result.cleaned_text = <<>>

====
